---- MODULE Spec2Model ----
(***************************************************************************)
(* Model of putils.timed.TimeDimension (src/python/putils/timed.py): the   *)
(* lagged panel construction (lag_features / _create_panel_data), the      *)
(* dimension calculator (_get_dimensions), the two panel-to-array          *)
(* converters (reshape_panel_to_xarray, reshape_to_daskarray) and the      *)
(* persistence wrappers (write_panel_data, read_panel_data).               *)
(*                                                                         *)
(* The partitioned table engine (dask) is modelled at the calls the class  *)
(* makes: map_overlap(func, before=lag, after=0), delayed tasks gathered   *)
(* by position, to_hdf/read_hdf under the key pattern "/partition-*".      *)
(* map_overlap prepends the last `before` rows of partition i-1 to         *)
(* partition i (nothing to the first partition), rejects a task whose      *)
(* predecessor cannot supply exactly `before` rows, applies func and trims *)
(* `before` rows from the front of all but the first partition.            *)
(*                                                                         *)
(* A record is [key, vals]: key is the row index (the ordering key), vals  *)
(* the feature values.  The dataframe handed to lag_features is sorted     *)
(* (its docstring requires it); the model takes its keys to be distinct,   *)
(* so they increase strictly along the dataset.                            *)
(***************************************************************************)
EXTENDS Integers, Sequences, FiniteSets

\* ---------------------------------------------------------------- bounds
MaxKey == 4
MaxParts == 3
MaxLag == 2
MaxFeatures == 2
MaxStale == 2

\* the absence marker (NaN) that pandas puts where an outer join has no row
NaN == -1

\* a value the caller does not hold yet, and the outcome of a failed call
Unset == [status |-> "unset", value |-> <<>>]
Raised == [status |-> "error", value |-> <<>>]
Returned(v) == [status |-> "ok", value |-> v]

VARIABLES
    dataset,   \* the input dask.DataFrame: a sequence of partitions of records
    lag,       \* the lag argument of lag_features / reshape_to_daskarray
    nfeat,     \* number of feature columns of the input
    pc,        \* where the caller is
    op,        \* the deferred operation last built: "none", "lag", "array", "write"
    wst,       \* per partition: status of its map_overlap task
    raw,       \* per partition: what _create_panel_data returned (before trimming)
    wout,      \* per partition: the trimmed panel partition
    cst,       \* per partition: status of the downstream task (reshape or write)
    cout,      \* per partition: output of the downstream reshape task
    result,    \* what the trigger returned to the caller
    store,     \* the chunks held at file_path: a set of [name, data]
    handle,    \* the partitions of the dataframe read_panel_data returned
    lag2,      \* the lag argument given to reshape_panel_to_xarray
    dims,      \* what _get_dimensions returned
    xarr       \* the array reshape_panel_to_xarray returned

vars == <<dataset, lag, nfeat, pc, op, wst, raw, wout, cst, cout, result,
          store, handle, lag2, dims, xarr>>

\* ------------------------------------------------------- sequence helpers
Min(a, b) == IF a < b THEN a ELSE b

SetMin(S) == CHOOSE m \in S : \A x \in S : m <= x

RECURSIVE SortedSeq(_)
\* the elements of a set of integers in increasing order
SortedSeq(S) == IF S = {} THEN <<>>
                ELSE <<SetMin(S)>> \o SortedSeq(S \ {SetMin(S)})

RECURSIVE Flatten(_)
\* the concatenation of a sequence of sequences, in order
Flatten(ss) == IF ss = <<>> THEN <<>> ELSE Head(ss) \o Flatten(Tail(ss))

\* DataFrame.tail(n): the last n rows, all of them when there are fewer
TailRows(s, n) == SubSeq(s, Len(s) - Min(n, Len(s)) + 1, Len(s))

\* DataFrame.iloc[n:]
ILocFrom(s, n) == SubSeq(s, n + 1, Len(s))

\* ------------------------------------------------------------ the records
Val(k, f) == k * 10 + f

Record(k, F) == [key |-> k, vals |-> [f \in 1..F |-> Val(k, f)]]

Keys(part) == {part[p].key : p \in 1..Len(part)}

\* ------------------------------------------------- _create_panel_data
\* a shift in the other direction: the values of rows j+1..n under the index
\* of rows 1..n-j
slice_shift_lead(partition, j) ==
    [p \in 1..(IF Len(partition) > j THEN Len(partition) - j ELSE 0) |->
        [key |-> partition[p].key, vals |-> partition[p + j].vals]]

\* partition.slice_shift(j): the values of rows 1..n-j under the index of
\* rows j+1..n; the j dropped periods are not in the result
slice_shift(partition, j) ==
    [p \in 1..(IF Len(partition) > j THEN Len(partition) - j ELSE 0) |->
        [key |-> partition[p + j].key, vals |-> partition[p].vals]]

\* the block a shifted frame contributes to the row labelled k of an outer
\* join: its values when it has the label, absence markers otherwise
BlockAt(shifted, k, F) ==
    IF \E p \in 1..Len(shifted) : shifted[p].key = k
    THEN shifted[CHOOSE p \in 1..Len(shifted) : shifted[p].key = k].vals
    ELSE [f \in 1..F |-> NaN]

\* the row labels of pd.concat(axis=1, sort=True): the sorted union (outer
\* join) of the labels of the shifted frames
ConcatIndex(partition, L) ==
    SortedSeq(UNION {Keys(slice_shift(partition, j)) : j \in 0..L})

\* pd.concat(objs=[slice_shift(0..L)], axis=1, keys=[t-0..t-L]): column
\* (j, f) is feature f of the frame shifted by j; columns are lag-major
ConcatColumns(partition, L, F) ==
    LET index == ConcatIndex(partition, L)
    IN [r \in 1..Len(index) |->
          [key |-> index[r],
           cells |-> [c \in 1..((L + 1) * F) |->
               BlockAt(slice_shift(partition, (c - 1) \div F), index[r], F)
                   [((c - 1) % F) + 1]]]]

\* a non-strict length check
HasHistoryNonStrict(partition, L) == Len(partition) >= L

\* assert len(partition) > lag
HasHistory(partition, L) == Len(partition) > L

create_panel_data(partition, L, F) ==
    IF ~HasHistory(partition, L)
    THEN [err |-> "InsufficientHistory", rows |-> <<>>]
    ELSE [err |-> "none", rows |-> ConcatColumns(partition, L, F)]

\* ------------------------------------------------------- lag_features
\* an overlap one row short
BeforeShort == lag - 1

\* before=lag, after=0
Before == lag

\* the context rows the engine takes from the predecessor of partition i
Context(i) == IF i = 1 THEN <<>> ELSE TailRows(dataset[i - 1], Before)

\* what the function of map_overlap receives for partition i
Combined(i) == Context(i) \o dataset[i]

\* a trim that does not spare the first partition
TrimEvery(rows, i) == ILocFrom(rows, Before)

\* step 4 of map_overlap: trim `before` rows from all but the first partition
Trim(rows, i) == IF i = 1 THEN rows ELSE ILocFrom(rows, Before)

\* one task of dataframe.map_overlap(func, before=lag, after=0)
OverlapChunk(i) ==
    IF i > 1 /\ Len(Context(i)) # Before
    THEN [err |-> "PartitionTooSmall", raw |-> <<>>, rows |-> <<>>]
    ELSE LET r == create_panel_data(Combined(i), lag, nfeat)
         IN IF r.err # "none"
            THEN [err |-> r.err, raw |-> <<>>, rows |-> <<>>]
            ELSE [err |-> "none", raw |-> r.rows, rows |-> Trim(r.rows, i)]

NParts == Len(dataset)
Parts == 1..NParts
Pending == [i \in Parts |-> "pending"]
Empty == [i \in Parts |-> <<>>]

\* ------------------------------------------------------- _get_dimensions
\* the values of a table as a matrix: one sequence of cells per row
NCols(table) == IF table = <<>> THEN 0 ELSE Len(table[1].cells)

\* len(args[0]), args[1]+1, int(len(args[0].columns) / (args[1]+1))
get_dimensions(table, L) ==
    <<Len(table), L + 1, NCols(table) \div (L + 1)>>

\* ------------------------------------------------ reshape_panel_to_xarray
\* the values read in Fortran order: column after column
ValuesFortranOrder(table) ==
    [x \in 1..(Len(table) * NCols(table)) |->
        table[((x - 1) % Len(table)) + 1].cells[((x - 1) \div Len(table)) + 1]]

\* dataframe.values read in C order: row after row
ValuesRowMajor(table) ==
    [x \in 1..(Len(table) * NCols(table)) |->
        table[((x - 1) \div NCols(table)) + 1].cells[((x - 1) % NCols(table)) + 1]]

\* dataframe.unstack(level=[-1]).values: a frame with a flat row index
\* unstacks to a series that runs through the table column after column
ValuesColumnMajor(table) ==
    [x \in 1..(Len(table) * NCols(table)) |->
        table[((x - 1) % Len(table)) + 1].cells[((x - 1) \div Len(table)) + 1]]

\* ndarray.reshape(observations, lags, features) of a flat C-order buffer
NumpyReshape(flat, d) ==
    [i \in 1..d[1] |-> [j \in 1..d[2] |-> [k \in 1..d[3] |->
        flat[(i - 1) * d[2] * d[3] + (j - 1) * d[3] + k]]]]

\* reshape raises when the element counts differ
ReshapeFits(flat, d) == Len(flat) = d[1] * d[2] * d[3]

\* columns.levels[0] and columns.levels[1]: the sorted distinct labels of
\* the lag level and of the feature level
LagLevels(L) == SortedSeq(0..L)
FeatureLevels(F) == SortedSeq(1..F)

\* reshape_panel_to_xarray(dataframe, lag) of a panel built with lag L over
\* F features: the DataArray, or the error numpy or xarray raises
reshape_panel_to_xarray(table, lagArg, L, F) ==
    LET d == get_dimensions(table, lagArg)
        flat == ValuesRowMajor(table)
    IN IF ~ReshapeFits(flat, d) THEN [err |-> "ValueError"]
       ELSE IF d[2] # Len(LagLevels(L)) \/ d[3] # Len(FeatureLevels(F))
       THEN [err |-> "CoordsMismatch"]
       ELSE [err |-> "none",
             data |-> NumpyReshape(flat, d),
             observations |-> [r \in 1..Len(table) |-> table[r].key],
             lags |-> LagLevels(L),
             features |-> FeatureLevels(F)]

\* --------------------------------------------------- reshape_to_daskarray
\* _reshape_panel_to_nparray calls _get_dimensions by its bare name; the
\* name is bound only as an attribute of the class, not in the scope of the
\* nested function nor in the module
GetDimensionsInScope == FALSE

\* the body of the delayed _reshape_panel_to_nparray(dataframe, lag)
reshape_panel_to_nparray(table, L) ==
    IF ~GetDimensionsInScope THEN [err |-> "NameError", data |-> <<>>]
    ELSE LET d == get_dimensions(table, L)
             flat == ValuesColumnMajor(table)
         IN IF ~ReshapeFits(flat, d) THEN [err |-> "ValueError", data |-> <<>>]
            ELSE [err |-> "none", data |-> NumpyReshape(flat, d)]

\* _concat_nparray(arrays): dask.array.concatenate(args[0], axis=0) over
\* the list built in partition order
concat_nparray(arrays) == Flatten(arrays)

\* ------------------------------------------ write_panel_data, read_panel_data
\* a write that is not deferred
to_hdf_compute_eager == TRUE

\* to_hdf(file_path, "/partition-*", compute=False)
to_hdf_compute == FALSE

\* the chunk names the key pattern "/partition-*" gives: one per partition
\* index, counted from 0
ChunkName(i) == i - 1

\* a chunk is written under its name; a chunk of that name is replaced
PutChunk(st, name, data) ==
    {c \in st : c.name # name} \cup {[name |-> name, data |-> data]}

RECURSIVE PutAll(_, _, _)
\* the chunks after writing partitions 1..n that windowing produced
PutAll(st, n, outs) ==
    IF n = 0 THEN st
    ELSE PutChunk(PutAll(st, n - 1, outs), ChunkName(n), outs[n])

\* every order in which the storage may list its chunks
Listings(st) ==
    {l \in [1..Cardinality(st) -> st] : \A a, b \in 1..Cardinality(st) :
                                            l[a] = l[b] => a = b}

\* read_hdf(file_path, "/partition-*"): one partition per chunk matching
\* the pattern, ordered by chunk name whatever the listing order
read_hdf(listing) ==
    LET names == SortedSeq({listing[a].name : a \in 1..Len(listing)})
    IN [n \in 1..Len(names) |->
          listing[CHOOSE a \in 1..Len(listing) : listing[a].name = names[n]].data]

\* a chunk left at file_path by an earlier write
StaleData == <<[key |-> 0, cells |-> <<>>]>>
StaleChunks(k) == {[name |-> ChunkName(n), data |-> StaleData] : n \in 1..k}

\* ------------------------------------------------------------------ Init
\* every way to cut a sorted sequence of records into n consecutive
\* partitions (empty ones included)
RECURSIVE Splits(_, _)
Splits(s, n) ==
    IF n = 1 THEN {<<s>>}
    ELSE UNION {{<<SubSeq(s, 1, c)>> \o rest :
                    rest \in Splits(SubSeq(s, c + 1, Len(s)), n - 1)} :
                c \in 0..Len(s)}

\* the sorted dataframes of up to MaxKey records with distinct increasing
\* keys, cut into up to MaxParts partitions
Datasets(F) ==
    UNION {UNION {Splits([p \in 1..m |-> Record(p, F)], n) : n \in 1..MaxParts} :
           m \in 0..MaxKey}

Init ==
    /\ nfeat \in 1..MaxFeatures
    /\ dataset \in Datasets(nfeat)
    /\ lag \in 0..MaxLag
    /\ pc = "start"
    /\ op = "none"
    /\ wst = Pending
    /\ raw = Empty
    /\ wout = Empty
    /\ cst = Pending
    /\ cout = Empty
    /\ result = Unset
    /\ store \in {StaleChunks(k) : k \in 0..MaxStale}
    /\ handle = Unset
    /\ lag2 = 0
    /\ dims = Unset
    /\ xarr = Unset

\* --------------------------------------------------------------- actions
\* lag_features(dataframe, lag): asserts lag > 0 and returns the deferred
\* map_overlap operation; no task runs
LagFeatures ==
    /\ pc = "start"
    /\ IF lag > 0
       THEN pc' = "built" /\ op' = "lag"
       ELSE pc' = "failed" /\ op' = "none"
    /\ UNCHANGED <<dataset, lag, nfeat, wst, raw, wout, cst, cout, result,
                   store, handle, lag2, dims, xarr>>

\* reshape_to_daskarray(panel, lag): one delayed reshape per partition and
\* a delayed concatenation; no task runs
ReshapeToDaskarray ==
    /\ pc = "built"
    /\ op = "lag"
    /\ pc' = "built"
    /\ op' = "array"
    /\ UNCHANGED <<dataset, lag, nfeat, wst, raw, wout, cst, cout, result,
                   store, handle, lag2, dims, xarr>>

\* the tasks a write runs at once when to_hdf is not deferred
EagerOuts == [i \in Parts |-> OverlapChunk(i).rows]
EagerOk == \A i \in Parts : OverlapChunk(i).err = "none"

\* write_panel_data(panel, file_path): the deferred to_hdf
WritePanelData ==
    /\ pc = "built"
    /\ op = "lag"
    /\ op' = "write"
    /\ IF to_hdf_compute
       THEN /\ pc' = IF EagerOk THEN "done" ELSE "failed"
            /\ store' = IF EagerOk THEN PutAll(store, NParts, EagerOuts) ELSE store
       ELSE /\ pc' = "built"
            /\ store' = store
    /\ UNCHANGED <<dataset, lag, nfeat, wst, raw, wout, cst, cout, result,
                   handle, lag2, dims, xarr>>

\* operation.compute(): the explicit trigger
Trigger ==
    /\ pc = "built"
    /\ pc' = "running"
    /\ UNCHANGED <<dataset, lag, nfeat, op, wst, raw, wout, cst, cout, result,
                   store, handle, lag2, dims, xarr>>

\* the engine runs the map_overlap task of partition i
RunWindowTask(i) ==
    /\ pc = "running"
    /\ wst[i] = "pending"
    /\ LET r == OverlapChunk(i)
       IN /\ wst' = [wst EXCEPT ![i] = IF r.err = "none" THEN "ok" ELSE r.err]
          /\ raw' = [raw EXCEPT ![i] = r.raw]
          /\ wout' = [wout EXCEPT ![i] = r.rows]
    /\ UNCHANGED <<dataset, lag, nfeat, pc, op, cst, cout, result, store,
                   handle, lag2, dims, xarr>>

\* the engine runs _reshape_panel_to_nparray on the realized partition i
RunReshapeTask(i) ==
    /\ pc = "running"
    /\ op = "array"
    /\ wst[i] = "ok"
    /\ cst[i] = "pending"
    /\ LET r == reshape_panel_to_nparray(wout[i], lag)
       IN /\ cst' = [cst EXCEPT ![i] = IF r.err = "none" THEN "ok" ELSE r.err]
          /\ cout' = [cout EXCEPT ![i] = r.data]
    /\ UNCHANGED <<dataset, lag, nfeat, pc, op, wst, raw, wout, result, store,
                   handle, lag2, dims, xarr>>

\* the engine writes the realized partition i to its chunk
RunWriteTask(i) ==
    /\ pc = "running"
    /\ op = "write"
    /\ wst[i] = "ok"
    /\ cst[i] = "pending"
    /\ store' = PutChunk(store, ChunkName(i), wout[i])
    /\ cst' = [cst EXCEPT ![i] = "ok"]
    /\ UNCHANGED <<dataset, lag, nfeat, pc, op, wst, raw, wout, cout, result,
                   handle, lag2, dims, xarr>>

Failed(st) == {i \in Parts : st[i] \notin {"pending", "ok"}}

\* a trigger that returns once no task is left to run
ReadyWhenIdle ==
    /\ \A i \in Parts : wst[i] # "pending"
    /\ op # "lag" => \A i \in Parts : wst[i] = "ok" => cst[i] # "pending"

\* the trigger returns only once every task of the graph has succeeded
Ready ==
    /\ \A i \in Parts : wst[i] = "ok"
    /\ op # "lag" => \A i \in Parts : cst[i] = "ok"

\* every task succeeded: the trigger returns the partitions' outputs
\* combined in partition order (the write returns no data)
Gather ==
    /\ pc = "running"
    /\ Ready
    /\ pc' = "done"
    /\ result' = IF op = "lag" THEN Returned(Flatten(wout))
                 ELSE IF op = "array" THEN Returned(concat_nparray(cout))
                 ELSE Returned(<<>>)
    /\ UNCHANGED <<dataset, lag, nfeat, op, wst, raw, wout, cst, cout, store,
                   handle, lag2, dims, xarr>>

\* a task raised: the trigger re-raises and returns nothing
Abort ==
    /\ pc = "running"
    /\ Failed(wst) \cup Failed(cst) # {}
    /\ pc' = "failed"
    /\ result' = Raised
    /\ UNCHANGED <<dataset, lag, nfeat, op, wst, raw, wout, cst, cout, store,
                   handle, lag2, dims, xarr>>

\* reshape_panel_to_xarray(table, l) on the realized panel table
ReshapePanelToXarray(l) ==
    /\ pc = "done"
    /\ op = "lag"
    /\ lag2' = l
    /\ dims' = Returned(get_dimensions(result.value, l))
    /\ LET r == reshape_panel_to_xarray(result.value, l, lag, nfeat)
       IN /\ xarr' = IF r.err = "none" THEN Returned(r) ELSE Raised
          /\ pc' = IF r.err = "none" THEN "reshaped" ELSE "reshape_failed"
    /\ UNCHANGED <<dataset, lag, nfeat, op, wst, raw, wout, cst, cout, result,
                   store, handle>>

\* read_panel_data(file_path) after the write was triggered
ReadPanelData ==
    /\ pc \in {"done", "failed"}
    /\ op = "write"
    /\ \E listing \in Listings(store) : handle' = Returned(read_hdf(listing))
    /\ pc' = "read"
    /\ UNCHANGED <<dataset, lag, nfeat, op, wst, raw, wout, cst, cout, result,
                   store, lag2, dims, xarr>>

Next ==
    \/ LagFeatures
    \/ ReshapeToDaskarray
    \/ WritePanelData
    \/ Trigger
    \/ \E i \in Parts : RunWindowTask(i)
    \/ \E i \in Parts : RunReshapeTask(i)
    \/ \E i \in Parts : RunWriteTask(i)
    \/ Gather
    \/ Abort
    \/ \E l \in 1..MaxLag : ReshapePanelToXarray(l)
    \/ ReadPanelData

Spec == Init /\ [][Next]_vars

\* ---------------------------------------------------------------- claims
\* the panel the caller holds after a successful trigger of lag_features
PanelReturned == op = "lag" /\ result.status = "ok"

AllRecords == Flatten(dataset)

\* the task of partition i has run (it succeeded or it raised)
Ran(i) == wst[i] # "pending"

\* C1: when the trigger of lag_features completes without error, the
\* realized panel is row for row the panel _create_panel_data builds from
\* the whole dataset taken as one partition
C1_BoundaryInvariant ==
    PanelReturned =>
        result.value = create_panel_data(AllRecords, lag, nfeat).rows

\* a panel was realized from a dataset cut in at least two partitions, the
\* second of which holds rows whose lags reach into the first
C1_Witness ==
    /\ PanelReturned
    /\ NParts >= 2
    /\ Len(dataset[2]) >= 1

\* C2: the function applied to a task input of length > lag returns one row
\* per input row, labelled as that row; its lag-j block is the record j
\* positions earlier in the input, or absence markers when there is none
C2_LagContent ==
    \A i \in Parts : wst[i] = "ok" =>
        /\ Len(raw[i]) = Len(Combined(i))
        /\ \A t \in 1..Len(raw[i]) :
              /\ raw[i][t].key = Combined(i)[t].key
              /\ Len(raw[i][t].cells) = (lag + 1) * nfeat
              /\ \A j \in 0..lag : \A f \in 1..nfeat :
                    raw[i][t].cells[j * nfeat + f] =
                        IF t - j >= 1 THEN Combined(i)[t - j].vals[f] ELSE NaN

\* a task with carried context has produced its rows, the first of which
\* lack part of their history and the later ones do not
C2_Witness ==
    \E i \in Parts :
        /\ i > 1
        /\ wst[i] = "ok"
        /\ Len(raw[i]) > lag + 1
        /\ raw[i][1].cells[lag * nfeat + 1] = NaN
        /\ raw[i][Len(raw[i])].cells[lag * nfeat + 1] # NaN

\* C3: once the trigger of reshape_to_daskarray has returned for a panel
\* whose windowing succeeds, the caller holds the per-partition arrays
\* concatenated in partition order, one array row per partition row
C3_ConcatOrder ==
    (op = "array" /\ pc # "running" /\ pc # "built"
        /\ \A i \in Parts : OverlapChunk(i).err = "none") =>
            /\ result.status = "ok"
            /\ result.value = Flatten(cout)
            /\ \A i \in Parts : Len(cout[i]) = Len(dataset[i])

\* C4: _get_dimensions raises ShapeMismatch and returns no triple when the
\* column count is not a multiple of lag + 1
C4_ShapeMismatch ==
    (pc \in {"reshaped", "reshape_failed"}
        /\ NCols(result.value) % (lag2 + 1) # 0) => dims.status = "error"

\* the context rows the engine would carry to partition i
Carried(i) == Len(Context(i))

\* the engine hands partition i its input: it is the first partition or its
\* predecessor has the `before` rows to lend
Supplied(i) == i = 1 \/ Len(dataset[i - 1]) >= lag

\* C5 (as stated): a task raises InsufficientHistory exactly when its own
\* length plus the context rows carried is at most lag
C5_Original ==
    \A i \in Parts : Ran(i) =>
        (wst[i] = "InsufficientHistory" <=> Len(dataset[i]) + Carried(i) <= lag)

\* C5 (amended): a task whose input the engine supplies raises
\* InsufficientHistory exactly when its own length plus the context rows
\* carried is at most lag; a task whose predecessor has fewer than lag rows
\* is rejected by the engine before windowing runs
C5_InsufficientHistory ==
    \A i \in Parts : Ran(i) =>
        /\ Supplied(i) =>
              (wst[i] = "InsufficientHistory"
                  <=> Len(dataset[i]) + Carried(i) <= lag)
        /\ ~Supplied(i) => wst[i] = "PartitionTooSmall"

\* a first partition no longer than lag has raised, a later partition that
\* is empty has raised with its full context, and a task with enough rows
\* has not
C5_Witness ==
    /\ \E i \in Parts : i > 1 /\ wst[i] = "InsufficientHistory"
                              /\ Carried(i) = lag
    /\ \E i \in Parts : wst[i] = "ok"

\* C6: the array reshape_panel_to_xarray returns has shape
\* (rows, lag+1, features) and element [i, j, k] is the table's cell at row
\* i, column j*features + k (indices from 0); rows keep their order
C6_VariantALayout ==
    pc = "reshaped" =>
        LET table == result.value
            F == NCols(table) \div (lag2 + 1)
            a == xarr.value.data
        IN /\ Len(a) = Len(table)
           /\ \A i \in 1..Len(table) :
                 /\ Len(a[i]) = lag2 + 1
                 /\ xarr.value.observations[i] = table[i].key
                 /\ \A j \in 1..(lag2 + 1) :
                       /\ Len(a[i][j]) = F
                       /\ \A k \in 1..F :
                             a[i][j][k] = table[i].cells[(j - 1) * F + k]

\* a table of several rows and several features per lag group was reshaped
C6_Witness ==
    /\ pc = "reshaped"
    /\ Len(result.value) >= 2
    /\ nfeat >= 2

\* C7: after a write that succeeded, read_panel_data returns as many
\* partitions as were written, the i-th with the contents of the i-th
C7_RoundTrip ==
    (pc = "read" /\ \A i \in Parts : cst[i] = "ok") =>
        /\ Len(handle.value) = NParts
        /\ \A i \in Parts : handle.value[i] = wout[i]

\* C8: when a partition task has failed, the trigger ends in an error and
\* returns nothing, whatever the other partitions produced
C8_AllOrNothing ==
    (pc \notin {"start", "built", "running"}
        /\ Failed(wst) \cup Failed(cst) # {}) =>
            /\ result = Raised
            /\ pc \in {"failed", "read"}

\* the trigger has failed while a partition had succeeded with rows
C8_Witness ==
    /\ pc = "failed"
    /\ \E i \in Parts : wst[i] = "ok" /\ wout[i] # <<>>
    /\ \E i \in Parts : wst[i] \notin {"pending", "ok"}

\* C9: as long as no trigger was called no task has run and no chunk was
\* written, building an operation changes nothing but the operation, and
\* the input dataset is never changed
C9_Lazy ==
    [][/\ dataset' = dataset
       /\ op' # op => pc' = "built" /\ store' = store
       /\ pc' \in {"start", "built"} =>
             /\ store' = store
             /\ wst' = Pending /\ cst' = Pending
             /\ raw' = Empty /\ wout' = Empty /\ cout' = Empty
             /\ result' = Unset]_vars

\* a deferred write over several partitions was built and not triggered
C9_Witness ==
    /\ pc = "built"
    /\ op = "write"
    /\ NParts >= 2
    /\ AllRecords # <<>>

\* C10: the realized panel has one row per record of the dataset, in the
\* dataset's order, and each task's output, once trimmed, has exactly the
\* rows of its own partition
C10_RowSet ==
    /\ PanelReturned =>
          [r \in 1..Len(result.value) |-> result.value[r].key]
              = [p \in 1..Len(AllRecords) |-> AllRecords[p].key]
    /\ \A i \in Parts : wst[i] = "ok" =>
          [r \in 1..Len(wout[i]) |-> wout[i][r].key]
              = [p \in 1..Len(dataset[i]) |-> dataset[i][p].key]

\* a panel was realized whose last partition is shorter than lag and whose
\* tasks had context rows to trim
C10_Witness ==
    /\ PanelReturned
    /\ NParts >= 2
    /\ Len(dataset[NParts]) >= 1
    /\ Len(dataset[NParts]) < lag
    /\ Len(raw[NParts]) > Len(wout[NParts])

\* C11: the array a reshape task of reshape_to_daskarray builds for its
\* partition has shape (rows, lag+1, features) and element [i, j, k] is the
\* partition's cell at row i, column j*features + k (indices from 0): the
\* values reshape_panel_to_xarray gives for the same table
C11_VariantBValues ==
    \A i \in Parts : (op = "array" /\ cst[i] # "pending") =>
        /\ cst[i] = "ok"
        /\ cout[i] = NumpyReshape(ValuesRowMajor(wout[i]),
                                  get_dimensions(wout[i], lag))

====
